---- MODULE Spec2Model ----
(***************************************************************************)
(* The Input Form Controller of front_end/src/routes/VideoGenerator.svelte *)
(* as a state machine.  The state is the component's script variables      *)
(* (lines 2-14), the build-time VITE_BACKEND_URL and, for every            *)
(* handleSubmit invocation, the position of that invocation (its await     *)
(* point) together with its local variables.  JavaScript runs every        *)
(* synchronous stretch of a handler to completion, so each action is one   *)
(* such stretch: from an event (a form edit, a submit, the settling of an  *)
(* awaited promise) up to the next await or the end of the handler.        *)
(*                                                                         *)
(* Optional values (File | null, number | null, string | null) are written *)
(* as sequences: << >> is null, <<v>> is the value v.                      *)
(* guidanceScale is counted in tenths (the input's step is 0.1), so 7.5 is *)
(* 75.                                                                     *)
(***************************************************************************)
EXTENDS Integers, Sequences, FiniteSets, TLC

\* ----------------------------------------------------------------- bounds
\* How many handleSubmit invocations a behaviour holds.
MaxSubmits == 2
\* How many form edits (bind:value / bind:group / on:change) a behaviour holds.
MaxEdits == 3

\* ------------------------------------------------------ program constants
DefaultInferenceSteps == 50
DefaultGuidanceScale == 75
DefaultWidth == 704
DefaultHeight == 480
DefaultNumFrames == 161
DimensionStep == 32
FrameStep == 8

Null == << >>
Some(v) == <<v>>

\* ------------------------------------------------------------ input sets
\* What an edit may put into each form variable: the initial value and, for
\* the validated fields, the nearest value the check rejects (700 and 481
\* are not multiples of 32, 160 - 1 is no multiple of 8, 0 steps, a scale of
\* -0.1).  The seed 0 is the non-null value that is falsy in JavaScript.
Prompts == {"", "a cat"}
ImageUrls == {"", "http://x/y.jpg"}
Files == {"cat.jpg"}
Seeds == {Null, Some(0)}
StepValues == {0, DefaultInferenceSteps}
GuidanceValues == {-1, DefaultGuidanceScale}
WidthValues == {DefaultWidth, 700}
HeightValues == {DefaultHeight, 481}
FrameValues == {DefaultNumFrames, 160}
InputMethods == {"url", "file"}
BackendUrls == {Null, Some("https://gw/backend")}

Ids == 1 .. MaxSubmits

VARIABLES
    prompt, imageUrl, imageFile, seed, inferenceSteps, guidanceScale,
    width, height, numFrames, inputMethod,
    loading, result, error,
    backendUrl,
    pc,        \* pc[i]: where invocation i of handleSubmit stands
    payload,   \* payload[i]: the local `payload` of invocation i
    reader,    \* reader[i]: the File invocation i handed to readAsDataURL
    formAt,    \* history: the form as it was when invocation i started
    lastOk,    \* history: the successful response that settled last
    nEdits     \* history: form edits so far

form == <<prompt, imageUrl, imageFile, seed, inferenceSteps, guidanceScale,
          width, height, numFrames, inputMethod>>
ui == <<loading, result, error>>
calls == <<pc, payload, reader, formAt>>
history == <<lastOk, nEdits>>
vars == <<form, ui, backendUrl, calls, history>>

\* ---------------------------------------------------------- JavaScript
\* a % b of JavaScript for integers, b > 0: the result has the sign of a.
JsRem(a, b) == IF a >= 0 THEN a % b ELSE 0 - ((0 - a) % b)

\* The messages are the literals of the source.
ErrDimensions == "Width and height must be divisible by 32"
ErrFrames == "Number of frames must be divisible by 8 plus 1"
ErrSteps == "Inference steps must be positive"
ErrGuidance == "Guidance scale must be non-negative"
ErrBackend == "Backend URL is not configured. Please check your environment variables."
ErrUnknown == "An unknown error occurred"
ErrDefault == "Failed to generate video"

\* validateDimensions with the frame-count check left out.
validateDimensions_noFrameCheck ==
    IF JsRem(width, DimensionStep) # 0 \/ JsRem(height, DimensionStep) # 0
    THEN Some(ErrDimensions)
    ELSE IF inferenceSteps < 1
    THEN Some(ErrSteps)
    ELSE IF guidanceScale < 0
    THEN Some(ErrGuidance)
    ELSE Null

\* validateDimensions: the message of the Error it throws, or Null when it
\* returns.  The checks run in the source's order; the first failure throws.
validateDimensions ==
    IF JsRem(width, DimensionStep) # 0 \/ JsRem(height, DimensionStep) # 0
    THEN Some(ErrDimensions)
    ELSE IF JsRem(numFrames - 1, FrameStep) # 0
    THEN Some(ErrFrames)
    ELSE IF inferenceSteps < 1
    THEN Some(ErrSteps)
    ELSE IF guidanceScale < 0
    THEN Some(ErrGuidance)
    ELSE Null

\* !backendUrl: undefined and the empty string are both falsy.
BackendMissing == backendUrl = Null \/ backendUrl = Some("")

\* The payload literal of lines 46-53: an object, i.e. a function from keys.
BasePayload ==
    [k \in {"prompt", "inference_steps", "guidance_scale", "width", "height",
            "num_frames"} |->
        CASE k = "prompt" -> prompt
          [] k = "inference_steps" -> inferenceSteps
          [] k = "guidance_scale" -> guidanceScale
          [] k = "width" -> width
          [] k = "height" -> height
          [] k = "num_frames" -> numFrames]

EmptyPayload == [k \in {} |-> 0]

\* obj.key = value
SetKey(obj, key, value) == (key :> value) @@ obj

\* Lines 69-73: the seed is added when it is neither null nor undefined
\* (0 is added), read from the component's `seed` at that moment.
AddSeed(p) == IF seed # Null THEN SetKey(p, "seed", seed[1]) ELSE p

\* FileReader.readAsDataURL: the data URL of the file's bytes.
ReadAsDataURL(f) ==
    CASE f = "cat.jpg" -> "data:image/jpeg;base64,/9j/4AAQ"
      [] OTHER -> "data:application/octet-stream;base64,"

\* ------------------------------------------------------------------ JSON
\* A JSON value: its type and, for an object, its members.  A member is
\* [type, text], text being String(member) as `new Error(member)` renders it.
NoMembers == [k \in {} |-> 0]
JsNull == [type |-> "null", members |-> NoMembers]
JsNumber == [type |-> "number", members |-> NoMembers]
JsObject(members) == [type |-> "object", members |-> members]
JsString(s) == [type |-> "string", text |-> s]
JsArray(rendered) == [type |-> "array", text |-> rendered]

\* The response bodies the gateway answers with.
OkBodies == {"{\"video\":\"a.mp4\"}", "{\"video\":\"b.mp4\"}",
             "<html>Bad Gateway</html>"}
ErrorBodies == {"{\"detail\":\"oom\"}", "server exploded", "{}",
                "{\"detail\":\"\"}", "{\"detail\":[\"bad width\"]}", "null",
                "500"}

\* JSON.parse: [ok |-> FALSE] is the SyntaxError it throws.
JSONParse(text) ==
    CASE text = "{\"video\":\"a.mp4\"}" ->
            [ok |-> TRUE, value |-> JsObject("video" :> JsString("a.mp4"))]
      [] text = "{\"video\":\"b.mp4\"}" ->
            [ok |-> TRUE, value |-> JsObject("video" :> JsString("b.mp4"))]
      [] text = "{\"detail\":\"oom\"}" ->
            [ok |-> TRUE, value |-> JsObject("detail" :> JsString("oom"))]
      [] text = "{\"detail\":\"\"}" ->
            [ok |-> TRUE, value |-> JsObject("detail" :> JsString(""))]
      [] text = "{\"detail\":[\"bad width\"]}" ->
            [ok |-> TRUE, value |-> JsObject("detail" :> JsArray("bad width"))]
      [] text = "{}" -> [ok |-> TRUE, value |-> JsObject(NoMembers)]
      [] text = "null" -> [ok |-> TRUE, value |-> JsNull]
      [] text = "500" -> [ok |-> TRUE, value |-> JsNumber]
      [] OTHER -> [ok |-> FALSE, value |-> JsNull]

\* JavaScript truthiness of a member: only the empty string is falsy here.
Truthy(m) == ~(m.type = "string" /\ m.text = "")

\* ErrorMessage reading another member than `detail`: a JSON body always
\* yields the default message.
ErrorMessage_wrongMember(errorText) ==
    LET p == JSONParse(errorText) IN
    IF ~p.ok \/ p.value.type = "null" THEN errorText ELSE ErrDefault

\* Lines 90-96: the message of the Error thrown for a non-ok response whose
\* body text is errorText.  JSON.parse throwing, and `.detail` of null
\* throwing, both land in the inner catch.
ErrorMessage(errorText) ==
    LET p == JSONParse(errorText) IN
    IF ~p.ok \/ p.value.type = "null"
    THEN errorText
    ELSE IF "detail" \in DOMAIN p.value.members
            /\ Truthy(p.value.members["detail"])
    THEN p.value.members["detail"].text
    ELSE ErrDefault

ErrFetch == "Failed to fetch"
ErrJson == "Unexpected token < in JSON at position 0"

\* --------------------------------------------------------------- Init
Init ==
    /\ prompt = ""
    /\ imageUrl = ""
    /\ imageFile = Null
    /\ seed = Null
    /\ inferenceSteps = DefaultInferenceSteps
    /\ guidanceScale = DefaultGuidanceScale
    /\ width = DefaultWidth
    /\ height = DefaultHeight
    /\ numFrames = DefaultNumFrames
    /\ loading = FALSE
    /\ result = JsNull
    /\ error = Null
    /\ inputMethod = "url"
    /\ backendUrl \in BackendUrls
    /\ pc = [i \in Ids |-> "idle"]
    /\ payload = [i \in Ids |-> EmptyPayload]
    /\ reader = [i \in Ids |-> Null]
    /\ formAt = [i \in Ids |-> Null]
    /\ lastOk = Null
    /\ nEdits = 0

\* ------------------------------------------------------------ form edits
\* An edit is modelled while some invocation has yet to read the form: one
\* not started, or one that reads `seed` after its file is loaded.
CanEdit == nEdits < MaxEdits /\ \E i \in Ids : pc[i] \in {"idle", "reading"}
Edited == nEdits' = nEdits + 1 /\ UNCHANGED <<ui, backendUrl, calls, lastOk>>

SetPrompt(v) ==
    /\ CanEdit /\ v # prompt /\ prompt' = v /\ Edited
    /\ UNCHANGED <<imageUrl, imageFile, seed, inferenceSteps, guidanceScale,
                   width, height, numFrames, inputMethod>>
SetImageUrl(v) ==
    /\ CanEdit /\ v # imageUrl /\ imageUrl' = v /\ Edited
    /\ UNCHANGED <<prompt, imageFile, seed, inferenceSteps, guidanceScale,
                   width, height, numFrames, inputMethod>>
SetSeed(v) ==
    /\ CanEdit /\ v # seed /\ seed' = v /\ Edited
    /\ UNCHANGED <<prompt, imageUrl, imageFile, inferenceSteps, guidanceScale,
                   width, height, numFrames, inputMethod>>
SetInferenceSteps(v) ==
    /\ CanEdit /\ v # inferenceSteps /\ inferenceSteps' = v /\ Edited
    /\ UNCHANGED <<prompt, imageUrl, imageFile, seed, guidanceScale,
                   width, height, numFrames, inputMethod>>
SetGuidanceScale(v) ==
    /\ CanEdit /\ v # guidanceScale /\ guidanceScale' = v /\ Edited
    /\ UNCHANGED <<prompt, imageUrl, imageFile, seed, inferenceSteps,
                   width, height, numFrames, inputMethod>>
SetWidth(v) ==
    /\ CanEdit /\ v # width /\ width' = v /\ Edited
    /\ UNCHANGED <<prompt, imageUrl, imageFile, seed, inferenceSteps,
                   guidanceScale, height, numFrames, inputMethod>>
SetHeight(v) ==
    /\ CanEdit /\ v # height /\ height' = v /\ Edited
    /\ UNCHANGED <<prompt, imageUrl, imageFile, seed, inferenceSteps,
                   guidanceScale, width, numFrames, inputMethod>>
SetNumFrames(v) ==
    /\ CanEdit /\ v # numFrames /\ numFrames' = v /\ Edited
    /\ UNCHANGED <<prompt, imageUrl, imageFile, seed, inferenceSteps,
                   guidanceScale, width, height, inputMethod>>
SetInputMethod(v) ==
    /\ CanEdit /\ v # inputMethod /\ inputMethod' = v /\ Edited
    /\ UNCHANGED <<prompt, imageUrl, imageFile, seed, inferenceSteps,
                   guidanceScale, width, height, numFrames>>

\* handleFileChange: files is target.files[0], Null when the list is empty
\* (the chooser was cancelled); the file is kept only when there is one.
\* With an empty list nothing is assigned, and no edit is counted.
handleFileChange(files) ==
    /\ CanEdit
    /\ imageFile' = IF files # Null THEN files ELSE imageFile
    /\ nEdits' = IF files # Null THEN nEdits + 1 ELSE nEdits
    /\ UNCHANGED <<ui, backendUrl, calls, lastOk>>
    /\ UNCHANGED <<prompt, imageUrl, seed, inferenceSteps, guidanceScale,
                   width, height, numFrames, inputMethod>>

\* ----------------------------------------------------------- handleSubmit
\* What a synchronous stretch of handleSubmit leaves in loading, result and
\* error when it ends.
\* Suspend without line 33: the previous error stays on display.
Suspend_keepsError == loading' = TRUE /\ UNCHANGED <<error, result>>
\* Lines 32-33, then the stretch yields at an await.
Suspend == loading' = TRUE /\ error' = Null /\ UNCHANGED result
\* A later stretch that yields at the next await assigns none of the three.
Continue == UNCHANGED ui
\* Throw that also clears the stored result.
Throw_clearsResult(message) ==
    error' = Some(message) /\ loading' = FALSE /\ result' = JsNull
\* Lines 101-106: an Error with this message reaches the catch, then finally.
Throw(message) == error' = Some(message) /\ loading' = FALSE /\ UNCHANGED result
\* Succeed without the finally block: loading keeps its value.
Succeed_noFinally(value) == result' = value /\ UNCHANGED <<loading, error>>
\* Lines 100 and 105: the parsed body is stored, then finally.
Succeed(value) == result' = value /\ loading' = FALSE /\ UNCHANGED error

\* Invocation i ends: its locals are gone.
Ends(i) ==
    /\ pc' = [pc EXCEPT ![i] = "done"]
    /\ payload' = [payload EXCEPT ![i] = EmptyPayload]
    /\ reader' = [reader EXCEPT ![i] = Null]
    /\ formAt' = [formAt EXCEPT ![i] = Null]

\* fetch(url, {method: 'POST', body: JSON.stringify(body)}): the request of
\* invocation i is on the wire, and the invocation awaits the response.
Fetch(i, body) ==
    /\ pc' = [pc EXCEPT ![i] = "fetching"]
    /\ payload' = [payload EXCEPT ![i] = body]
    /\ reader' = [reader EXCEPT ![i] = Null]
    /\ formAt' = [formAt EXCEPT ![i] = Null]

\* The i-th invocation of handleSubmit, from line 32 to its first await or,
\* when it throws before one, to the end of finally.
handleSubmit(i) ==
    /\ pc[i] = "idle"
    /\ \A j \in Ids : j < i => pc[j] # "idle"
    /\ UNCHANGED <<form, backendUrl, history>>
    /\ \/ /\ validateDimensions # Null
          /\ Throw(validateDimensions[1])
          /\ Ends(i)
       \/ /\ validateDimensions = Null
          /\ BackendMissing
          /\ Throw(ErrBackend)
          /\ Ends(i)
       \/ /\ validateDimensions = Null
          /\ ~BackendMissing
          /\ inputMethod = "url"
          /\ Fetch(i, AddSeed(SetKey(BasePayload, "image_url", imageUrl)))
          /\ Suspend
       \/ /\ validateDimensions = Null
          /\ ~BackendMissing
          /\ inputMethod # "url"
          /\ imageFile # Null
          /\ pc' = [pc EXCEPT ![i] = "reading"]
          /\ payload' = [payload EXCEPT ![i] = BasePayload]
          /\ reader' = [reader EXCEPT ![i] = imageFile]
          /\ formAt' = [formAt EXCEPT ![i] = Some(form)]
          /\ Suspend
       \/ /\ validateDimensions = Null
          /\ ~BackendMissing
          /\ inputMethod # "url"
          /\ imageFile = Null
          /\ Fetch(i, AddSeed(BasePayload))
          /\ Suspend

\* reader.onload resolves base64Promise: lines 66-85 run up to the fetch.
FileLoaded(i) ==
    /\ pc[i] = "reading"
    /\ Fetch(i, AddSeed(SetKey(payload[i], "image_base64",
                               ReadAsDataURL(reader[i][1]))))
    /\ Continue
    /\ UNCHANGED <<form, backendUrl, history>>

\* reader.onerror rejects base64Promise with the ProgressEvent, which is no
\* Error: line 102 takes the fallback message.
FileError(i) ==
    /\ pc[i] = "reading"
    /\ Throw(ErrUnknown)
    /\ Ends(i)
    /\ UNCHANGED <<form, backendUrl, history>>

\* fetch rejects (no connection, CORS, DNS): a TypeError reaches the catch.
FetchRejects(i) ==
    /\ pc[i] = "fetching"
    /\ Throw(ErrFetch)
    /\ Ends(i)
    /\ UNCHANGED <<form, backendUrl, history>>

\* fetch resolves with the gateway's status line and headers: line 87
\* branches on response.ok and the invocation awaits the body.  The local
\* payload is not read again.
FetchResolves(i, ok) ==
    /\ pc[i] = "fetching"
    /\ pc' = [pc EXCEPT ![i] = IF ok THEN "json" ELSE "text"]
    /\ payload' = [payload EXCEPT ![i] = EmptyPayload]
    /\ UNCHANGED <<reader, formAt>>
    /\ Continue
    /\ UNCHANGED <<form, backendUrl, history>>

\* response.text() resolves with the body of a non-ok response: lines 88-97.
TextRead(i, errorText) ==
    /\ pc[i] = "text"
    /\ Throw(ErrorMessage(errorText))
    /\ Ends(i)
    /\ UNCHANGED <<form, backendUrl, history>>

\* response.json() resolves for an ok response whose body is this JSON text:
\* line 100 stores the parsed value.
JsonRead(i, body) ==
    /\ pc[i] = "json"
    /\ JSONParse(body).ok
    /\ Succeed(JSONParse(body).value)
    /\ lastOk' = Some(body)
    /\ Ends(i)
    /\ UNCHANGED <<form, backendUrl, nEdits>>

\* response.json() rejects with a SyntaxError: the body is not JSON.
JsonRejects(i, body) ==
    /\ pc[i] = "json"
    /\ ~JSONParse(body).ok
    /\ Throw(ErrJson)
    /\ Ends(i)
    /\ UNCHANGED <<form, backendUrl, history>>

\* The I/O of invocation i settles, one way or another.
Settle(i) ==
    \/ FileLoaded(i)
    \/ FileError(i)
    \/ FetchRejects(i)
    \/ \E ok \in BOOLEAN : FetchResolves(i, ok)
    \/ \E t \in ErrorBodies : TextRead(i, t)
    \/ \E b \in OkBodies : JsonRead(i, b)
    \/ \E b \in OkBodies : JsonRejects(i, b)

Edit ==
    \/ \E v \in Prompts : SetPrompt(v)
    \/ \E v \in ImageUrls : SetImageUrl(v)
    \/ \E v \in Seeds : SetSeed(v)
    \/ \E v \in StepValues : SetInferenceSteps(v)
    \/ \E v \in GuidanceValues : SetGuidanceScale(v)
    \/ \E v \in WidthValues : SetWidth(v)
    \/ \E v \in HeightValues : SetHeight(v)
    \/ \E v \in FrameValues : SetNumFrames(v)
    \/ \E v \in InputMethods : SetInputMethod(v)
    \/ \E f \in {Null} \cup {Some(x) : x \in Files} : handleFileChange(f)

Next ==
    \/ Edit
    \/ \E i \in Ids : handleSubmit(i)
    \/ \E i \in Ids : Settle(i)

Spec == Init /\ [][Next]_vars

\* The browser delivers every load, error and response event that is due.
LiveSpec == Spec /\ \A i \in Ids : WF_vars(Settle(i))

\* ---------------------------------------------------------------- claims
InFlight(i) == pc[i] \in {"reading", "fetching", "text", "json"}
Outstanding == {i \in Ids : pc[i] = "fetching"}
\* Invocation i of handleSubmit runs in this step.
Starts(i) == pc[i] = "idle" /\ pc'[i] # "idle"
\* The request of invocation i goes on the wire in this step.
Sends(i) == pc[i] # "fetching" /\ pc'[i] = "fetching"
\* Invocation i settles (its finally block runs) in this step.
Settles(i) == pc[i] # "done" /\ pc'[i] = "done"

\* The conditions of the claims, stated on the form and on a request body.
DimensionsOk(w, h, n, steps, scale) ==
    /\ w % 32 = 0
    /\ h % 32 = 0
    /\ (n - 1) % 8 = 0
    /\ steps >= 1
    /\ scale >= 0
FormOk == DimensionsOk(width, height, numFrames, inferenceSteps, guidanceScale)
Configured == backendUrl # Null /\ backendUrl # Some("")
BodyOk(b) ==
    DimensionsOk(b["width"], b["height"], b["num_frames"],
                 b["inference_steps"], b["guidance_scale"])

\* C1: a handleSubmit invocation gets past its checks (to the file read or to
\* the POST) only if the form satisfies the five conditions and the backend
\* URL is configured; otherwise it ends in the same step with no request put
\* on the wire and error set to a message.  Every request that is put on the
\* wire, also after a file read, carries values that satisfy the conditions.
C1_PostOnlyIfValid ==
    [][\A i \in Ids :
          /\ Starts(i) /\ ~(FormOk /\ Configured)
                => /\ pc'[i] = "done"
                   /\ error' # Null
                   /\ Outstanding' = Outstanding
          /\ Starts(i) /\ pc'[i] \in {"reading", "fetching"}
                => FormOk /\ Configured
          /\ Sends(i) => BodyOk(payload'[i]) /\ Configured
          /\ pc[i] = "done" => pc'[i] = "done"]_vars

\* A submission with an invalid frame count has ended with its message while
\* the request of a valid one is on the wire.
C1_Witness ==
    /\ error = Some(ErrFrames)
    /\ \E i, j \in Ids : pc[i] = "fetching" /\ pc[j] = "done"

\* C2: loading is true exactly when some submission has started and has not
\* yet settled.
C2_LoadingIffInFlight == loading <=> \E i \in Ids : InFlight(i)

\* C3: at most one POST request is outstanding at a time.
C3_AtMostOneOutstanding == Cardinality(Outstanding) <= 1

\* C4 as stated: error and result are never both non-null, and neither is
\* non-null while loading is true.
C4_MutuallyExclusive ==
    /\ ~(error # Null /\ result # JsNull)
    /\ loading => error = Null /\ result = JsNull

\* C4 as amended: error is never non-null while loading is true.
C4_NoErrorWhileLoading == loading => error = Null

\* A stored result is on display while a later submission is loading.
C4_Witness == loading /\ result # JsNull /\ error = Null

\* C5: every request body holds exactly one of image_url and image_base64:
\* image_url when inputMethod is 'url', image_base64 when it is 'file'.
C5_ExactlyOneImageKey ==
    [][\A i \in Ids : Sends(i) =>
          LET keys == DOMAIN payload'[i] \cap {"image_url", "image_base64"}
              method == IF pc[i] = "reading" THEN formAt[i][1][10]
                        ELSE inputMethod
          IN  keys = IF method = "url" THEN {"image_url"}
                     ELSE {"image_base64"}]_vars

\* The member `detail` of a parsed body, Null when there is none.
Detail(p) ==
    IF p.ok /\ "detail" \in DOMAIN p.value.members
    THEN Some(p.value.members["detail"])
    ELSE Null

\* C6 as stated: for a non-success response the error is the body's detail
\* when the body parses as JSON, the raw text when it does not.
C6_DetailOrRawText ==
    [][\A i \in Ids : \A t \in ErrorBodies : TextRead(i, t) =>
          LET p == JSONParse(t) IN
          IF p.ok
          THEN Detail(p) # Null /\ error' = Some(Detail(p)[1].text)
          ELSE error' = Some(t)]_vars

\* C6 as amended: the error is the body's detail, as a string, when the body
\* parses as JSON to a non-null value with a truthy detail; it is "Failed to
\* generate video" when the body parses to a non-null value whose detail is
\* missing or falsy; it is the raw text when the body does not parse or
\* parses to null.
C6_DetailDefaultOrRawText ==
    [][\A i \in Ids : \A t \in ErrorBodies : TextRead(i, t) =>
          LET p == JSONParse(t)
              d == Detail(p)
          IN  error' = Some(CASE ~p.ok -> t
                                 [] p.ok /\ p.value.type = "null" -> t
                                 [] p.ok /\ p.value.type # "null" /\ d = Null
                                        -> "Failed to generate video"
                                 [] p.ok /\ p.value.type # "null" /\ d # Null
                                        -> IF d[1].type = "string" /\ d[1].text = ""
                                           THEN "Failed to generate video"
                                           ELSE d[1].text)]_vars

\* A non-success response without a detail has settled.
C6_Witness == error = Some(ErrDefault) /\ \E i \in Ids : pc[i] = "done"

\* Whether body b holds the form values f (a form tuple) as C7 lists them.
Carries(b, f) ==
    /\ b["prompt"] = f[1]
    /\ b["inference_steps"] = f[5]
    /\ b["guidance_scale"] = f[6]
    /\ b["width"] = f[7]
    /\ b["height"] = f[8]
    /\ b["num_frames"] = f[9]
    /\ "seed" \in DOMAIN b <=> f[4] # Null
    /\ "seed" \in DOMAIN b => b["seed"] = f[4][1]

\* C7: the request body carries prompt, inference_steps, guidance_scale,
\* width, height and num_frames of the form the submission was made with,
\* and a seed key exactly when that form's seed is non-null, with its value.
C7_BodyCarriesForm ==
    [][\A i \in Ids : Sends(i) =>
          Carries(payload'[i],
                  IF pc[i] = "reading" THEN formAt[i][1] ELSE form)]_vars

\* C8: given that file reads and requests settle, whenever invocations are
\* waiting for I/O a state follows in which none is; an invocation that waits
\* leaves that only by settling, so each of them has settled by then.
\* Settling sets loading to false on every path, and an invocation that
\* fails validation or configuration settles within its own step, before
\* any I/O.
C8_LoadingEventuallyCleared ==
    /\ (\E i \in Ids : InFlight(i)) ~> (\A i \in Ids : ~InFlight(i))
    /\ [][\A i \in Ids :
             /\ InFlight(i) => InFlight(i)' \/ Settles(i)
             /\ Settles(i) => loading' = FALSE
             /\ Starts(i) /\ ~(FormOk /\ Configured) => Settles(i)]_vars

\* A submission has succeeded and loading is cleared.
C8_Witness ==
    /\ ~loading
    /\ result # JsNull
    /\ \E i \in Ids : pc[i] = "done"

\* C9: a handleSubmit invocation that fails validation leaves result and
\* every form field unchanged, and loading as it was before.
C9_ValidationFailureFrame ==
    [][\A i \in Ids : Starts(i) /\ ~FormOk =>
          /\ UNCHANGED <<result, form>>
          /\ loading' = loading]_vars

\* C10: result is null while no submission has succeeded, and afterwards the
\* parsed body of the successful response that settled last; nothing else
\* (a start, a failure of any kind) changes it.
C10_ResultIsLastSuccess ==
    result = IF lastOk = Null THEN JsNull ELSE JSONParse(lastOk[1]).value

\* Two submissions overlap; the one started later has settled first, with
\* success, and its body is the result.
C10_Witness ==
    /\ pc[1] = "json"
    /\ pc[2] = "done"
    /\ lastOk # Null
    /\ result = JSONParse(lastOk[1]).value
    /\ result # JsNull

====
